---- MODULE Spec2Model ----
(***************************************************************************)
(* Model of the data migration 0097_load_initial_safe_data.py:             *)
(*   load_initial_safe_data    (the "apply" direction of RunPython)        *)
(*   reverse_initial_safe_data (the "reverse" direction of RunPython)      *)
(* The data store, the fixture file and the application registry are the   *)
(* environment of the two functions; the statements of the two functions   *)
(* are the actions.                                                        *)
(***************************************************************************)
EXTENDS Integers, Sequences, FiniteSets, TLC

\* ------------------------------------------------------------ bounds
\* primary keys per collection are 1..MaxPk
MaxPk == 1
\* writes by other parts of the application between two migration calls
MaxExternal == 1

\* ------------------------------------------------------------ the six collections
Collections ==
    {"SafeContract", "SafeMasterCopy", "ProxyFactory", "Contract", "ContractAbi", "Chain"}

\* lines 19-24: the order in which the models are looked up
ResolveOrder ==
    <<"SafeContract", "SafeMasterCopy", "ProxyFactory", "Contract", "ContractAbi", "Chain">>

\* a bug that deletes in the order of the lookups
DeleteOrderAsResolved ==
    <<"SafeContract", "SafeMasterCopy", "ProxyFactory", "Contract", "ContractAbi", "Chain">>

\* a bug that forgets the last delete
DeleteOrderWithoutChain ==
    <<"SafeContract", "Contract", "ContractAbi", "SafeMasterCopy", "ProxyFactory">>

\* lines 27-32: the order of the delete statements
DeleteOrder ==
    <<"SafeContract", "Contract", "ContractAbi", "SafeMasterCopy", "ProxyFactory", "Chain">>

\* the order the spec states (section 4.2), used to state the claims
SpecOrder ==
    <<"SafeContract", "Contract", "ContractAbi", "SafeMasterCopy", "ProxyFactory", "Chain">>

\* ------------------------------------------------------------ tables and stores
Pks == 1..MaxPk
\* the contents of a row: two distinct contents tell a row that was
\* overwritten from one that was kept; 0 stands for "no such row"
Vals == {1, 2}

\* a table maps each primary key to the contents of its row, 0 when absent
EmptyTable == [k \in Pks |-> 0]
EmptyStore == [c \in Collections |-> EmptyTable]

Keys(t) == {k \in Pks : t[k] # 0}
RowCount(st) == Cardinality({ck \in Collections \X Pks : st[ck[1]][ck[2]] # 0})

\* rows 1..n, all with contents v
UniformTable(n, v) == [k \in Pks |-> IF k <= n THEN v ELSE 0]
SampleTables ==
    {UniformTable(n, 1) : n \in 1..MaxPk} \cup {UniformTable(MaxPk, v) : v \in Vals}
Filled(D, t) == [c \in Collections |-> IF c \in D THEN t ELSE EmptyTable]

\* ------------------------------------------------------------ exceptions
\* classes derived from Exception that the calls of the two functions raise
ExceptionSubclasses ==
    {"DeserializationError", "IntegrityError", "OSError", "OperationalError",
     "CommandError", "ProtectedError", "LookupError"}

\* a handler that names one class only
ExceptParseErrorOnly(e) == e = "DeserializationError"

\* line 14: except Exception
ApplyExcept(e) == e \in ExceptionSubclasses

\* line 33: except Exception
ReverseExcept(e) == e \in ExceptionSubclasses

\* lines 26-34: the statements the try of reverse encloses are the deletes;
\* the lookups of lines 19-24 stand before it
InReverseTry(p) == p = "r_delete"

\* ------------------------------------------------------------ the fixture file
\* a check that is always satisfied
PathAlwaysExists(f) == TRUE

\* a check with the condition inverted
PathExistsInverted(f) == ~f.exists

\* line 9: os.path.exists(fixture_file)
PathExists(f) == f.exists

\* the order of the records in the file (the file is not part of the
\* repository): referenced collections first, as a dump writes them
FileOrder ==
    <<"Chain", "SafeMasterCopy", "ProxyFactory", "ContractAbi", "Contract", "SafeContract">>

FilePos(c) == CHOOSE i \in 1..Len(FileOrder) : FileOrder[i] = c
RecordIndex(c, k) == (FilePos(c) - 1) * MaxPk + k

\* the first j records of the file
FilePrefix(recs, j) ==
    [c \in Collections |-> [k \in Pks |-> IF RecordIndex(c, k) <= j THEN recs[c][k] ELSE 0]]

\* the loader saves each record under its primary key: insert or overwrite
Upsert(st, recs) ==
    [c \in Collections |-> [k \in Pks |-> IF recs[c][k] # 0 THEN recs[c][k] ELSE st[c][k]]]

\* line 13: call_command('loaddata', fixture_file, verbosity=0).
\* The loader is the framework's, not this file's: what is modelled is the
\* set of outcomes it can have on file f and store st, each the store it
\* leaves and the exception it raises ("none" when it returns). A missing
\* file is a CommandError; a malformed file a DeserializationError; a
\* well-formed file is loaded whole, or the load fails on a constraint
\* leaving nothing or the first records of the file; the file read or the
\* store can fail whatever the file holds.
Loaddata(f, st) ==
    IF ~f.exists THEN {[store |-> st, exc |-> "CommandError"]}
    ELSE IF ~f.wellFormed THEN
        {[store |-> st, exc |-> e] : e \in {"DeserializationError", "OSError", "OperationalError"}}
    ELSE
        {[store |-> Upsert(st, f.records), exc |-> "none"]}
        \cup {[store |-> st, exc |-> e] : e \in {"IntegrityError", "OSError", "OperationalError"}}
        \cup {[store |-> Upsert(st, FilePrefix(f.records, j)), exc |-> "IntegrityError"] :
                j \in {i \in 1..(Len(FileOrder) * MaxPk) :
                         /\ FilePrefix(f.records, i) # f.records
                         /\ FilePrefix(f.records, i) # EmptyStore}}

\* ------------------------------------------------------------ deletes
\* a delete that removes nothing
DeleteNothing(t) == t

\* lines 27-32: <Model>.objects.all().delete()
DeleteAll(t) == EmptyTable

\* exceptions a delete can raise
DeleteExceptions == {"IntegrityError", "OperationalError", "ProtectedError"}

\* a handler per statement: the sequence goes on with the next delete
ContinueAfterFailure(k) == k + 1

\* lines 33-34: the handler encloses the whole sequence, so after a delete
\* raises, control leaves the sequence (position past its end)
AfterDeleteFailure(k) == Len(DeleteOrder) + 1

\* ------------------------------------------------------------ state
VARIABLES
    store,       \* the six collections
    fs,          \* the fixture file: [exists, wellFormed, records]
    registry,    \* the models apps.get_model can resolve
    pc,          \* "idle", "a_exists", "a_load", "r_resolve", "r_delete"
    step,        \* position in the lookups or in the deletes
    resolved,    \* the local variables of reverse that are bound
    op,          \* the call in progress, or the last one
    result,      \* "none", "running", "returned", "raised"
    failed,      \* a step of this call raised
    exc,         \* the last exception a step of this call raised
    pre,         \* the store when this call began
    loadCalls,   \* invocations of the loader in this call
    deleted,     \* the collections this call has deleted, in order
    failedAt,    \* position of the delete that raised in this call, 0 if none
    prev,        \* summary of the call before this one
    gained,      \* another writer added rows since the last apply began
    extInserts   \* number of writes by other writers

vars == <<store, fs, registry, pc, step, resolved, op, result, failed, exc, pre,
          loadCalls, deleted, failedAt, prev, gained, extInserts>>

\* what a call leaves for the next one to be compared with: its kind, how it
\* ended, whether a step of it raised, whether the store held rows when it
\* began, whether it invoked the loader
NoCall == [op |-> "none", result |-> "none", failed |-> FALSE, hadRows |-> FALSE,
           loaded |-> FALSE]

ThisCall == [op |-> op, result |-> result, failed |-> failed,
             hadRows |-> (pre # EmptyStore), loaded |-> (loadCalls > 0)]

\* ------------------------------------------------------------ initial states
FixtureShapes == {Collections, {"Chain", "SafeMasterCopy"}, {"SafeContract"}}

\* the collections that hold rows at the start: none, a leading or a trailing
\* part of the delete sequence, or a single one
Range(s) == {s[i] : i \in 1..Len(s)}
StoreShapes ==
    {Range(SubSeq(DeleteOrder, 1, n)) : n \in 0..Len(DeleteOrder)}
    \cup {Range(SubSeq(DeleteOrder, n, Len(DeleteOrder))) : n \in 1..Len(DeleteOrder)}
    \cup {{c} : c \in Collections}

InitStores == {Filled(D, t) : D \in StoreShapes, t \in SampleTables}

InitFiles ==
    {[exists |-> FALSE, wellFormed |-> FALSE, records |-> EmptyStore],
     [exists |-> TRUE, wellFormed |-> FALSE, records |-> EmptyStore],
     [exists |-> TRUE, wellFormed |-> TRUE, records |-> EmptyStore]}
    \cup {[exists |-> TRUE, wellFormed |-> TRUE, records |-> Filled(D, t)] :
            D \in FixtureShapes, t \in SampleTables}

\* the application state the migration runs in: every model registered, the
\* models of the contracts app missing (the migration declares no dependency
\* on that app, lines 39-47), or a single model missing
InitRegistries ==
    {Collections, Collections \ {"Contract", "ContractAbi"}}
    \cup {Collections \ {c} : c \in Collections}

Init ==
    /\ store \in InitStores
    /\ fs \in InitFiles
    /\ registry \in InitRegistries
    /\ registry # Collections => store \in {EmptyStore, Filled(Collections, UniformTable(MaxPk, 1))}
    /\ pc = "idle"
    /\ step = 0
    /\ resolved = {}
    /\ op = "none"
    /\ result = "none"
    /\ failed = FALSE
    /\ exc = "none"
    /\ pre = EmptyStore
    /\ loadCalls = 0
    /\ deleted = <<>>
    /\ failedAt = 0
    /\ prev = NoCall
    /\ gained = FALSE
    /\ extInserts = 0

\* ------------------------------------------------------------ apply
\* line 6: the migration runner calls load_initial_safe_data
ApplyCall ==
    /\ pc = "idle"
    /\ pc' = "a_exists"
    /\ op' = "apply"
    /\ result' = "running"
    /\ failed' = FALSE
    /\ exc' = "none"
    /\ pre' = store
    /\ loadCalls' = 0
    /\ deleted' = <<>>
    /\ failedAt' = 0
    /\ prev' = ThisCall
    /\ gained' = FALSE
    /\ UNCHANGED <<store, fs, registry, step, resolved, extInserts>>

\* lines 9-10: if not os.path.exists(fixture_file): return
ApplyExists ==
    /\ pc = "a_exists"
    /\ IF PathExists(fs)
         THEN /\ pc' = "a_load"
              /\ UNCHANGED result
         ELSE /\ pc' = "idle"
              /\ result' = "returned"
    /\ UNCHANGED <<store, fs, registry, step, resolved, op, failed, exc, pre,
                   loadCalls, deleted, failedAt, prev, gained, extInserts>>

\* lines 12-15: try: call_command('loaddata', ...) except Exception: pass
ApplyLoad ==
    /\ pc = "a_load"
    /\ \E out \in Loaddata(fs, store) :
         /\ store' = out.store
         /\ loadCalls' = loadCalls + 1
         /\ exc' = out.exc
         /\ failed' = (out.exc # "none")
         /\ result' = IF out.exc = "none" \/ ApplyExcept(out.exc)
                        THEN "returned" ELSE "raised"
    /\ pc' = "idle"
    /\ UNCHANGED <<fs, registry, step, resolved, op, pre, deleted, failedAt,
                   prev, gained, extInserts>>

\* ------------------------------------------------------------ reverse
\* line 18: the migration runner calls reverse_initial_safe_data
ReverseCall ==
    /\ pc = "idle"
    /\ pc' = "r_resolve"
    /\ step' = 1
    /\ resolved' = {}
    /\ op' = "reverse"
    /\ result' = "running"
    /\ failed' = FALSE
    /\ exc' = "none"
    /\ pre' = store
    /\ loadCalls' = 0
    /\ deleted' = <<>>
    /\ failedAt' = 0
    /\ prev' = ThisCall
    /\ UNCHANGED <<store, fs, registry, gained, extInserts>>

\* what a raising statement at position p of reverse leads to
Raise(p, e) == IF InReverseTry(p) /\ ReverseExcept(e) THEN "returned" ELSE "raised"

\* lines 19-24: <Model> = apps.get_model(app, name); LookupError when the
\* registry does not hold the model
ReverseResolve ==
    /\ pc = "r_resolve"
    /\ LET c == ResolveOrder[step] IN
         IF c \in registry
           THEN /\ resolved' = resolved \cup {c}
                /\ IF step < Len(ResolveOrder)
                     THEN pc' = "r_resolve" /\ step' = step + 1
                     ELSE pc' = "r_delete" /\ step' = 1
                /\ UNCHANGED <<result, failed, exc>>
           ELSE /\ exc' = "LookupError"
                /\ failed' = TRUE
                /\ result' = Raise(pc, "LookupError")
                /\ pc' = "idle"
                /\ UNCHANGED <<resolved, step>>
    /\ UNCHANGED <<store, fs, registry, op, pre, loadCalls, deleted, failedAt,
                   prev, gained, extInserts>>

\* where the delete sequence goes from position k
Goto(k) ==
    IF k <= Len(DeleteOrder)
      THEN pc' = "r_delete" /\ step' = k /\ UNCHANGED result
      ELSE pc' = "idle" /\ step' = k /\ result' = "returned"

\* lines 27-32, a delete that succeeds
ReverseDelete ==
    /\ pc = "r_delete"
    /\ step <= Len(DeleteOrder)
    /\ LET c == DeleteOrder[step] IN
         /\ c \in resolved
         /\ store' = [store EXCEPT ![c] = DeleteAll(store[c])]
         /\ deleted' = Append(deleted, c)
    /\ Goto(step + 1)
    /\ UNCHANGED <<fs, registry, resolved, op, failed, exc, pre, loadCalls,
                   failedAt, prev, gained, extInserts>>

\* lines 27-34, a delete that raises: the rows of the collection stay as they
\* were (the store runs a delete statement as a whole or not at all)
ReverseDeleteFails ==
    /\ pc = "r_delete"
    /\ step <= Len(DeleteOrder)
    /\ DeleteOrder[step] \in resolved
    /\ \E e \in DeleteExceptions :
         /\ exc' = e
         /\ failed' = TRUE
         /\ failedAt' = IF failedAt = 0 THEN step ELSE failedAt
         /\ IF Raise(pc, e) = "returned"
              THEN Goto(AfterDeleteFailure(step))
              ELSE pc' = "idle" /\ result' = "raised" /\ UNCHANGED step
    /\ UNCHANGED <<store, fs, registry, resolved, op, pre, loadCalls, deleted,
                   prev, gained, extInserts>>

\* ------------------------------------------------------------ other writers
\* the collections the running service adds rows to (safes and contracts it
\* indexes); the others are configuration
ExternalTargets == {"SafeContract", "Contract"}

\* the contents of the rows other writers add
ExternalContents == CHOOSE v \in Vals : \A w \in Vals : v >= w

\* another part of the application adds a row once the seeding has run
\* (spec section 9: "tables gained additional data after seeding")
ExternalInsert ==
    /\ pc = "idle"
    /\ op = "apply"
    /\ extInserts < MaxExternal
    /\ \E c \in ExternalTargets, k \in Pks :
         /\ store[c][k] = 0
         /\ store' = [store EXCEPT ![c][k] = ExternalContents]
    /\ extInserts' = extInserts + 1
    /\ gained' = TRUE
    /\ UNCHANGED <<fs, registry, pc, step, resolved, op, result, failed, exc, pre,
                   loadCalls, deleted, failedAt, prev>>

\* ------------------------------------------------------------ specifications
Next ==
    \/ ApplyCall
    \/ ApplyExists
    \/ ApplyLoad
    \/ ReverseCall
    \/ ReverseResolve
    \/ ReverseDelete
    \/ ReverseDeleteFails

Spec == Init /\ [][Next]_vars

\* the same program in an application whose other parts write to the store
InitEnv ==
    /\ Init
    /\ store \in {EmptyStore} \cup {Filled(Collections, t) : t \in SampleTables}
    /\ fs.exists /\ fs.wellFormed => fs.records \in {Filled(D, UniformTable(MaxPk, 1)) : D \in FixtureShapes}
    /\ registry = Collections

NextEnv == Next \/ ExternalInsert

SpecEnv == InitEnv /\ [][NextEnv]_vars

\* ------------------------------------------------------------ claims
Finished(o) == pc = "idle" /\ op = o

\* C1: reverse never propagates an exception to its caller, whichever step
\* fails, a lookup of one of the six models or one of the six deletes.
C1_ReverseNeverRaises == op = "reverse" => result # "raised"

\* C2: when the fixture file exists, apply returns normally whatever the
\* loader does: no outcome of the loader reaches the caller as an exception.
C2_ApplyNeverRaises ==
    /\ (op = "apply" /\ fs.exists) => result # "raised"
    /\ (Finished("apply") /\ fs.exists) => result = "returned" /\ loadCalls = 1

C2_Witness ==
    /\ Finished("apply") /\ fs.exists /\ failed
    /\ exc = "IntegrityError" /\ result = "returned" /\ store # pre

\* C3: when the fixture file does not exist, apply returns without error,
\* never invokes the loader and leaves the six collections as they were.
C3_MissingFileIsNoOp ==
    (op = "apply" /\ ~fs.exists) =>
        /\ loadCalls = 0
        /\ store = pre
        /\ result # "raised"
        /\ pc = "idle" => result = "returned"

C3_Witness ==
    /\ Finished("apply") /\ ~fs.exists /\ result = "returned"
    /\ pre # EmptyStore /\ store = pre

\* the load of a well-formed fixture file went through
LoadedCleanly == Finished("apply") /\ fs.exists /\ fs.wellFormed /\ ~failed

\* C4 as stated: after apply on a well-formed fixture file of N valid
\* records, the store holds exactly those N records, on any store.
C4_ExactlyFixtureRecords ==
    LoadedCleanly => result = "returned" /\ store = fs.records

\* C4 as amended: after apply on a well-formed fixture file of N valid
\* records, each of the N records is in the store, every row that was there
\* before under a key the file does not hold is kept as it was, and no other
\* row is there; on a store that was empty these are exactly the N records.
C4_FixtureRecordsAdded ==
    LoadedCleanly =>
        /\ result = "returned"
        /\ \A c \in Collections, k \in Pks :
             store[c][k] = IF fs.records[c][k] # 0 THEN fs.records[c][k] ELSE pre[c][k]
        /\ pre = EmptyStore => store = fs.records /\ RowCount(store) = RowCount(fs.records)

C4_Witness ==
    /\ LoadedCleanly
    /\ RowCount(fs.records) > 1
    /\ \E c \in Collections : pre[c] # EmptyTable /\ fs.records[c] = EmptyTable
    /\ \E c \in Collections :
         pre[c] # EmptyTable /\ fs.records[c] # EmptyTable /\ pre[c] # fs.records[c]
    /\ \E c \in Collections : pre[c] = EmptyTable /\ fs.records[c] # EmptyTable
    /\ store # pre /\ store # fs.records

\* C5: if no step of reverse fails, all six collections are empty after it,
\* whatever rows they held.
C5_ReverseEmptiesAll ==
    (Finished("reverse") /\ ~failed) =>
        /\ result = "returned"
        /\ \A c \in Collections : Keys(store[c]) = {}

C5_Witness ==
    /\ Finished("reverse") /\ ~failed
    /\ \A c \in Collections : pre[c] # EmptyTable
    /\ store = EmptyStore

\* C6: two consecutive apply calls on the same fixture file both return
\* without raising; two consecutive reverse calls both return without
\* raising, and the second, begun on an empty store, changes nothing.
C6_RepeatedCalls ==
    (pc = "idle" /\ prev.op = op) =>
        /\ op = "apply" => prev.result = "returned" /\ result = "returned"
        /\ op = "reverse" =>
             /\ prev.result = "returned" /\ result = "returned"
             /\ pre = EmptyStore => store = pre

\* C7: in every state reached during reverse, the collections deleted so far
\* are a leading part of SafeContract, Contract, ContractAbi, SafeMasterCopy,
\* ProxyFactory, Chain, and they are empty; so the three dependent
\* collections are deleted before any of the three they may reference.
C7_DeleteOrderIsPrefix ==
    op = "reverse" =>
        /\ Len(deleted) <= Len(SpecOrder)
        /\ deleted = SubSeq(SpecOrder, 1, Len(deleted))
        /\ \A i \in 1..Len(deleted) : store[deleted[i]] = EmptyTable
        /\ Range(deleted) \cap {"SafeMasterCopy", "ProxyFactory", "Chain"} # {}
             => {"SafeContract", "Contract", "ContractAbi"} \subseteq Range(deleted)

C7_Witness ==
    /\ op = "reverse" /\ pc = "r_delete" /\ Len(deleted) = 4
    /\ \A i \in 1..4 : pre[deleted[i]] # EmptyTable
    /\ store["Chain"] # EmptyTable

\* C8: when the delete at position k raises, reverse returns normally at
\* once: the collections before k are deleted and stay so, no delete is
\* attempted on a collection after k, whose rows are unchanged, and the
\* failed delete is not attempted again.
C8_FailureSkipsTheRest ==
    (op = "reverse" /\ failedAt # 0) =>
        /\ pc = "idle" /\ result = "returned"
        /\ deleted = SubSeq(SpecOrder, 1, failedAt - 1)
        /\ \A i \in 1..(failedAt - 1) : store[SpecOrder[i]] = EmptyTable
        /\ \A i \in (failedAt + 1)..Len(SpecOrder) : store[SpecOrder[i]] = pre[SpecOrder[i]]

C8_Witness ==
    /\ op = "reverse" /\ failedAt = 2 /\ result = "returned"
    /\ pre["SafeContract"] # EmptyTable /\ store["SafeContract"] = EmptyTable
    /\ \A i \in 2..Len(SpecOrder) : store[SpecOrder[i]] # EmptyTable

\* a reverse without failure that follows an apply without failure
ApplyThenReverse ==
    /\ Finished("reverse") /\ ~failed
    /\ prev.op = "apply" /\ ~prev.failed /\ prev.result = "returned"

\* C9: reverse is not the inverse of apply. After a failure-free apply and a
\* failure-free reverse the six collections are empty, not restored: rows
\* the store held before apply, or gained after it, were there when reverse
\* began and are deleted, also when apply did nothing for lack of the file.
C9_ReverseIsNotInverse ==
    ApplyThenReverse =>
        /\ store = EmptyStore
        /\ (prev.hadRows \/ gained) => pre # EmptyStore /\ store # pre
        /\ ~fs.exists => ~prev.loaded

C9_Witness ==
    /\ ApplyThenReverse
    /\ ~fs.exists /\ ~prev.loaded
    /\ prev.hadRows /\ gained
    /\ pre # EmptyStore /\ store = EmptyStore

GainsRow(c) == ~(Keys(store'[c]) \subseteq Keys(store[c]))
LosesRow(c) == ~(Keys(store[c]) \subseteq Keys(store'[c]))

\* C10: over any sequence of apply and reverse calls, a collection gains a
\* row only in the step of apply that invokes the loader, which apply takes
\* at most once and only when the fixture file exists, and loses a row only
\* in a delete step of reverse: no row is lost during apply, none is gained
\* during reverse.
C10_RowsOnlyByLoadAndDelete ==
    [][ /\ (\E c \in Collections : GainsRow(c)) =>
             op = "apply" /\ pc = "a_load" /\ loadCalls' = 1
        /\ (\E c \in Collections : LosesRow(c)) =>
             op = "reverse" /\ pc = "r_delete"
        /\ loadCalls' <= 1
        /\ loadCalls' > loadCalls => op = "apply" /\ fs.exists /\ pc = "a_load"
        /\ op = "apply" /\ op' = "apply" => \A c \in Collections : ~LosesRow(c)
        /\ op = "reverse" /\ op' = "reverse" => \A c \in Collections : ~GainsRow(c)
      ]_vars

C10_Witness ==
    /\ Finished("reverse") /\ prev.op = "apply" /\ prev.loaded /\ ~prev.hadRows
    /\ pre # EmptyStore /\ store = EmptyStore

====
